---- MODULE Spec2Model ----
(***************************************************************************)
(* State-machine model of the timetracker page (src/index.js): the id      *)
(* counter, the event bus, Model / Task / Interval, the task table and     *)
(* its rows, the clock, and the document stored in localStorage.           *)
(*                                                                         *)
(* Task objects live in `heap`, a function from references to objects, so *)
(* that Model.tasks and the rows share objects as they do in the code and  *)
(* indexOf / findIndex compare references.  An object that neither         *)
(* Model.tasks nor a row references any more is unreachable and leaves     *)
(* the heap.                                                               *)
(***************************************************************************)
EXTENDS Integers, Sequences, FiniteSets, TLC

VARIABLES
    gid,        \* the module-level id counter (line 1)
    listeners,  \* eventBus.listeners: event type -> listeners in registration order
    heap,       \* the reachable Task objects of this page, by reference
    tasks,      \* Model.tasks: sequence of Task references
    rowEls,     \* TaskTableEl.rowEls: sequence of rows
    storage,    \* localStorage item 'timetracker'
    now,        \* the value Date.now() returns
    phase,      \* "init" | "running" | "failed" | "unloaded"
    thrown,     \* exception that escaped the last handler, or "none"
    calls,      \* the listener invocations made by the last handler, in order
    session     \* number of page loads so far

vars == <<gid, listeners, heap, tasks, rowEls, storage, now, phase, thrown, calls, session>>

----------------------------------------------------------------------------
(* Bounds *)

MaxTasks == 2        \* Task objects alive at a time
MaxIntervals == 2    \* intervals per task
MaxTicks == 1        \* clock advances
MaxSessions == 2     \* page loads
MaxGid == 2          \* addTask is taken while gid is below this
MaxListeners == 3    \* addListener is called while fewer are registered

(* Date.now() is milliseconds since 1970: positive.  The clock advances   *)
(* in steps of ClockStep milliseconds; handlers that run between two      *)
(* advances read the same Date.now().                                     *)
StartMs == 1
ClockStep == 1000

Times == { StartMs + ClockStep * k : k \in 0..MaxTicks }

Refs == 1..MaxTasks

----------------------------------------------------------------------------
(* Values *)

RUNNING == "RUNNING"
PAUSED == "PAUSED"

\* JavaScript `undefined` in a numeric field (Interval's startMs / endMs).
Undefined == -1

\* JavaScript truthiness of a numeric field: undefined and 0 are falsy.
Truthy(v) == v # Undefined /\ v # 0

----------------------------------------------------------------------------
(* Array helpers, 0-based as in JavaScript *)

\* Array.prototype.indexOf: first index holding x, or -1.
IndexOf(arr, x) ==
    IF \E k \in 1..Len(arr) : arr[k] = x
    THEN (CHOOSE k \in 1..Len(arr) : arr[k] = x /\ \A j \in 1..(k-1) : arr[j] # x) - 1
    ELSE -1

\* Array.prototype.splice(start, deleteCount) without inserted items:
\* a negative start counts from the end, clamped at 0.
Splice(arr, start, deleteCount) ==
    LET len == Len(arr)
        s   == IF start < 0
               THEN (IF len + start < 0 THEN 0 ELSE len + start)
               ELSE (IF start > len THEN len ELSE start)
        n   == IF deleteCount < 0 THEN 0
               ELSE IF deleteCount > len - s THEN len - s ELSE deleteCount
    IN  SubSeq(arr, 1, s) \o SubSeq(arr, s + n + 1, len)

----------------------------------------------------------------------------
(* Interval *)

NewInterval == [startMs |-> Undefined, endMs |-> Undefined]

IntervalStart(interval, t) == [interval EXCEPT !.startMs = t]

\* A stop() that writes the wrong field as well.
IntervalStop_Restart(interval, t) == [interval EXCEPT !.startMs = t, !.endMs = t]

IntervalStop(interval, t) == [interval EXCEPT !.endMs = t]

IntervalElapsed(interval, t) ==
    LET endMs == IF Truthy(interval.endMs) THEN interval.endMs ELSE t
    IN  endMs - interval.startMs

IntervalSerialize(interval) ==
    [startMs |-> interval.startMs, endMs |-> interval.endMs]

\* Reading a property of a plain object: an absent property reads undefined.
Prop(obj, key) == IF key \in DOMAIN obj THEN obj[key] ELSE Undefined

\* A deserialize() that restores startMs only.
IntervalDeserialize_NoEnd(interval, serialized) ==
    [interval EXCEPT !.startMs = Prop(serialized, "startMs")]

IntervalDeserialize(interval, serialized) ==
    [interval EXCEPT !.startMs = Prop(serialized, "startMs"),
                     !.endMs = Prop(serialized, "endMs")]

----------------------------------------------------------------------------
(* Task *)

\* new Task(): id = gid++ (the caller advances gid), name 'Task ' + id.
TaskName(id) == <<"Task ", id>>

NewTask(g) ==
    [id |-> g, name |-> TaskName(g), intervals |-> <<>>, status |-> PAUSED]

\* A run() that pushes the interval without starting it.
TaskRun_NoStart(task, t) ==
    [task EXCEPT !.intervals = Append(@, NewInterval), !.status = RUNNING]

TaskRun(task, t) ==
    [task EXCEPT !.intervals = Append(@, IntervalStart(NewInterval, t)),
                 !.status = RUNNING]

\* intervals[length - 1] is undefined on an empty list: interval.stop() throws
\* a TypeError before status is assigned.
PauseThrows(task) == Len(task.intervals) = 0

\* A pause() that changes the status without stopping the interval.
TaskPause_NoStop(task, t) == [task EXCEPT !.status = PAUSED]

TaskPause(task, t) ==
    IF PauseThrows(task) THEN task
    ELSE [task EXCEPT !.intervals[Len(task.intervals)] = IntervalStop(@, t),
                      !.status = PAUSED]

TaskToggle(task, t) ==
    IF task.status = PAUSED THEN TaskRun(task, t)
    ELSE IF task.status = RUNNING THEN TaskPause(task, t)
    ELSE task

RECURSIVE SumElapsed(_, _, _)
SumElapsed(intervals, k, t) ==
    IF k > Len(intervals) THEN 0
    ELSE IntervalElapsed(intervals[k], t) + SumElapsed(intervals, k + 1, t)

TaskElapsed(task, t) == SumElapsed(task.intervals, 1, t)

TaskSerialize(task) ==
    [id |-> task.id,
     name |-> task.name,
     intervals |-> [k \in 1..Len(task.intervals) |-> IntervalSerialize(task.intervals[k])],
     status |-> task.status]

\* A deserialize() that restores every task as paused.
TaskDeserialize_Paused(task, serialized) ==
    [task |-> [id |-> serialized.id + 1,
               name |-> serialized.name,
               intervals |-> task.intervals \o
                    [k \in 1..Len(serialized.intervals) |->
                        IntervalDeserialize(NewInterval, serialized.intervals[k])],
               status |-> PAUSED],
     gid |-> serialized.id]

\* Task.deserialize: returns the task and the value it leaves in gid.
\* The last statement `gid = this.id++` stores the old id in gid and
\* then increments this.id.
TaskDeserialize(task, serialized) ==
    [task |-> [id |-> serialized.id + 1,
               name |-> serialized.name,
               intervals |-> task.intervals \o
                    [k \in 1..Len(serialized.intervals) |->
                        IntervalDeserialize(NewInterval, serialized.intervals[k])],
               status |-> serialized.status],
     gid |-> serialized.id]

----------------------------------------------------------------------------
(* JSON and localStorage *)

\* JSON.stringify drops the properties whose value is undefined.
StringifyInterval(si) ==
    IF si.endMs = Undefined THEN [startMs |-> si.startMs]
    ELSE [startMs |-> si.startMs, endMs |-> si.endMs]

StringifyTask(st) ==
    [id |-> st.id,
     name |-> st.name,
     intervals |-> [k \in 1..Len(st.intervals) |-> StringifyInterval(st.intervals[k])],
     status |-> st.status]

\* The text JSON.stringify produces, kept as the JSON value it denotes.
JSONStringify(doc) ==
    [kind |-> "json",
     value |-> [tasks |-> [k \in 1..Len(doc.tasks) |-> StringifyTask(doc.tasks[k])]]]

\* localStorage.getItem results: null (no item), "", a text that is not
\* JSON, or a JSON text.
NoItem == [kind |-> "null"]
EmptyText == [kind |-> "empty"]
NotJSON == [kind |-> "unparseable"]
NoTasksJSON == [kind |-> "json", value |-> [version |-> 1]]

\* `if (serialized)`: null and "" are falsy.
ItemTruthy(item) == item.kind \notin {"null", "empty"}

\* JSON.parse throws a SyntaxError on a text that is not JSON.
ParseThrows(item) == item.kind = "unparseable"

JSONParse(item) == item.value

----------------------------------------------------------------------------
(* Model *)

EmptyHeap == [r \in {} |-> NewTask(0)]

\* The objects still referenced from Model.tasks or from a row.
Reachable(h, ts, rows) ==
    [r \in { ts[k] : k \in 1..Len(ts) } \cup { rows[k].task : k \in 1..Len(rows) } |-> h[r]]

ModelSerialize(h, ts) ==
    [tasks |-> [k \in 1..Len(ts) |-> TaskSerialize(h[ts[k]])]]

\* serialized.tasks.forEach throws a TypeError when tasks is not a list.
DeserializeThrows(serialized) == "tasks" \notin DOMAIN serialized

\* Model.deserialize: for each serialized task, new Task() (id = gid++),
\* task.deserialize(serializedTask), this.tasks.push(task).
RECURSIVE ModelDeserialize(_, _, _)
ModelDeserialize(sts, k, st) ==
    IF k > Len(sts) THEN st
    ELSE LET fresh == NewTask(st.gid)
             d     == TaskDeserialize(fresh, sts[k])
         IN  ModelDeserialize(sts, k + 1,
                [gid   |-> d.gid,
                 heap  |-> st.heap @@ (k :> d.task),
                 tasks |-> Append(st.tasks, k)])

\* Model.load on a fresh page: the outcome of the Model constructor up to
\* the listener registration.
ModelLoad(item) ==
    LET empty == [gid |-> 0, heap |-> EmptyHeap, tasks |-> <<>>]
    IN  IF ~ItemTruthy(item) THEN empty @@ [thrown |-> "none"]
        ELSE IF ParseThrows(item) THEN empty @@ [thrown |-> "SyntaxError"]
        ELSE IF DeserializeThrows(JSONParse(item)) THEN empty @@ [thrown |-> "TypeError"]
        ELSE ModelDeserialize(JSONParse(item).tasks, 1, empty) @@ [thrown |-> "none"]

----------------------------------------------------------------------------
(* View *)

\* JavaScript remainder: the sign follows the dividend.
JsRem(a, b) == IF a >= 0 THEN a % b ELSE -((-a) % b)

\* A padding that is left out.
Pad2_NoPad(n) == ToString(n)

Pad2(n) == IF n < 10 THEN "0" \o ToString(n) ELSE ToString(n)

formatDuration(durationMs) ==
    LET s0 == durationMs \div 1000
        m0 == s0 \div 60
        h  == m0 \div 60
        s  == JsRem(s0, 60)
        m  == JsRem(m0, 60)
    IN  ToString(h) \o ":" \o Pad2(m) \o ":" \o Pad2(s)

Ligature(task) ==
    IF task.status = RUNNING THEN "pause"
    ELSE IF task.status = PAUSED THEN "play_arrow"
    ELSE "undefined"

\* new TaskTableRowEl(task): updateDuration(true) and updateStatus().
NewRow(ref, task, t) ==
    [task |-> ref,
     elapsedText |-> formatDuration(TaskElapsed(task, t)),
     ligature |-> Ligature(task)]

\* TaskTableRowEl.updateDuration(force).
UpdateDuration(row, task, force, t) ==
    IF force \/ task.status = RUNNING
    THEN [row EXCEPT !.elapsedText = formatDuration(TaskElapsed(task, t))]
    ELSE row

\* TaskTableRowEl.updateStatus(): neither branch runs for another status.
UpdateStatus(row, task) ==
    IF task.status \in {RUNNING, PAUSED}
    THEN [row EXCEPT !.ligature = Ligature(task)]
    ELSE row

\* rowEls.findIndex(taskEl => taskEl.task === task), 0-based, -1 if none.
FindIndex(rows, ref) ==
    IndexOf([k \in 1..Len(rows) |-> rows[k].task], ref)

RowTasks == [k \in 1..Len(rowEls) |-> rowEls[k].task]

----------------------------------------------------------------------------
(* EventBus *)

\* The Model's delete_task listener.
\* A listener that removes the first task, whichever task was given.
ModelOnDelete_First(ts, ref) == Splice(ts, 0, 1)

ModelOnDelete(ts, ref) == Splice(ts, IndexOf(ts, ref), 1)

\* The table's delete_task listener: this.rowEls[-1] is undefined and
\* reading .element of it throws a TypeError before the splice.
TableOnDeleteThrows(rows, ref) == FindIndex(rows, ref) = -1

\* A listener that removes the last row, whichever task was given.
TableOnDelete_Last(rows, ref) == Splice(rows, -1, 1)

TableOnDelete(rows, ref) ==
    IF TableOnDeleteThrows(rows, ref) THEN rows
    ELSE Splice(rows, FindIndex(rows, ref), 1)

\* The listeners: the two the program registers, and functions other code
\* can register: two that return and one that throws.
ProgramListeners == {"Model", "TaskTableEl"}
OtherListeners == {"ListenerA", "ListenerB", "Thrower"}

EventTypes == {"delete_task", "other_event"}

\* this.listeners = {}
EmptyListeners == [e \in {} |-> <<>>]

\* EventBus.addListener: the list of the type is created on first use.
AddListener(lmap, eventType, listener) ==
    IF eventType \in DOMAIN lmap
    THEN [lmap EXCEPT ![eventType] = Append(@, listener)]
    ELSE lmap @@ (eventType :> <<listener>>)

\* listener(data): the invocation, then what the listener does.
CallListener(listener, ref, st) ==
    LET called == [st EXCEPT !.calls = Append(@, [listener |-> listener, data |-> ref])]
    IN  IF listener = "Model"
        THEN [called EXCEPT !.tasks = ModelOnDelete(st.tasks, ref)]
        ELSE IF listener = "TaskTableEl"
        THEN (IF TableOnDeleteThrows(st.rowEls, ref)
              THEN [called EXCEPT !.thrown = "TypeError"]
              ELSE [called EXCEPT !.rowEls = TableOnDelete(st.rowEls, ref)])
        ELSE IF listener = "Thrower"
        THEN [called EXCEPT !.thrown = "Error"]
        ELSE called

\* A forEach that goes on to the next listener after an exception.
RECURSIVE FireEvent_Isolated(_, _, _, _)
FireEvent_Isolated(ls, k, ref, st) ==
    IF k > Len(ls) THEN st
    ELSE FireEvent_Isolated(ls, k + 1, ref, CallListener(ls[k], ref, st))

\* listeners.forEach in fireEvent: the listeners in registration order; an
\* exception ends the forEach.
RECURSIVE FireEvent(_, _, _, _)
FireEvent(ls, k, ref, st) ==
    IF k > Len(ls) \/ st.thrown # "none" THEN st
    ELSE FireEvent(ls, k + 1, ref, CallListener(ls[k], ref, st))

\* EventBus.fireEvent(eventType, data): nothing when the type has no list.
BusFireEvent(lmap, eventType, data, st) ==
    IF eventType \in DOMAIN lmap
    THEN FireEvent(lmap[eventType], 1, data, st)
    ELSE st

----------------------------------------------------------------------------
(* Initial state: a page about to run its startup callback. *)

Init ==
    /\ gid = 0
    /\ listeners = EmptyListeners
    /\ heap = EmptyHeap
    /\ tasks = <<>>
    /\ rowEls = <<>>
    /\ storage = NoItem
    /\ now = StartMs
    /\ phase = "init"
    /\ thrown = "none"
    /\ calls = <<>>
    /\ session = 1

----------------------------------------------------------------------------
(* Actions *)

\* The setTimeout callback (lines 332-336): new Model(), new View(model),
\* view.start().  An exception in the Model constructor ends the callback.
Startup ==
    /\ phase = "init"
    /\ LET m == ModelLoad(storage)
       IN  IF m.thrown # "none"
           THEN /\ phase' = "failed"
                /\ thrown' = m.thrown
                /\ calls' = <<>>
                /\ UNCHANGED <<gid, listeners, heap, tasks, rowEls>>
           ELSE /\ phase' = "running"
                /\ thrown' = "none"
                /\ calls' = <<>>
                /\ gid' = m.gid
                /\ heap' = m.heap
                /\ tasks' = m.tasks
                /\ listeners' = AddListener(AddListener(listeners, "delete_task", "Model"),
                                            "delete_task", "TaskTableEl")
                /\ rowEls' = [k \in 1..Len(m.tasks) |->
                                NewRow(m.tasks[k], m.heap[m.tasks[k]], now)]
    /\ UNCHANGED <<storage, now, session>>

\* Click on the add button: View.onAddTaskClick.
AddTaskClick ==
    /\ phase = "running"
    /\ Cardinality(DOMAIN heap) < MaxTasks
    /\ gid < MaxGid
    /\ LET task == NewTask(gid)
           ref  == CHOOSE r \in Refs : r \notin DOMAIN heap /\
                        \A q \in Refs : q < r => q \in DOMAIN heap
       IN  /\ gid' = gid + 1
           /\ heap' = heap @@ (ref :> task)
           /\ tasks' = Append(tasks, ref)
           /\ rowEls' = Append(rowEls, NewRow(ref, task, now))
    /\ thrown' = "none"
    /\ calls' = <<>>
    /\ UNCHANGED <<listeners, storage, now, phase, session>>

\* Click on a row's play/pause button: TaskTableRowEl.onStatusToggleClick.
ToggleClick(i) ==
    /\ phase = "running"
    /\ i \in 1..Len(rowEls)
    /\ LET ref  == rowEls[i].task
           task == TaskToggle(heap[ref], now)
       IN  /\ heap[ref].status = PAUSED => Len(heap[ref].intervals) < MaxIntervals
           /\ heap' = [heap EXCEPT ![ref] = task]
           /\ rowEls' = [rowEls EXCEPT ![i] = UpdateStatus(@, task)]
    /\ thrown' = "none"
    /\ calls' = <<>>
    /\ UNCHANGED <<gid, listeners, tasks, storage, now, phase, session>>

\* eventBus.fireEvent('delete_task', task).
DeleteTask(ref) ==
    LET st == BusFireEvent(listeners, "delete_task", ref,
                [tasks |-> tasks, rowEls |-> rowEls, thrown |-> "none", calls |-> <<>>])
    IN  /\ tasks' = st.tasks
        /\ rowEls' = st.rowEls
        /\ thrown' = st.thrown
        /\ calls' = st.calls
        /\ heap' = Reachable(heap, st.tasks, st.rowEls)
        /\ UNCHANGED <<gid, listeners, storage, now, phase, session>>

\* Click on a row's delete button: TaskTableRowEl.onDeleteButtonClick.
DeleteClick(i) ==
    /\ phase = "running"
    /\ i \in 1..Len(rowEls)
    /\ DeleteTask(rowEls[i].task)

\* A timer callback that also saves the model.
TimerTick_Autosave ==
    /\ phase = "running"
    /\ rowEls' = [k \in 1..Len(rowEls) |->
                    UpdateDuration(rowEls[k], heap[rowEls[k].task], FALSE, now)]
    /\ storage' = JSONStringify(ModelSerialize(heap, tasks))
    /\ thrown' = "none"
    /\ calls' = <<>>
    /\ UNCHANGED <<gid, listeners, heap, tasks, now, phase, session>>

\* The setInterval callback of View.start: TaskTableEl.updateDurations.
TimerTick ==
    /\ phase = "running"
    /\ rowEls' = [k \in 1..Len(rowEls) |->
                    UpdateDuration(rowEls[k], heap[rowEls[k].task], FALSE, now)]
    /\ thrown' = "none"
    /\ calls' = <<>>
    /\ UNCHANGED <<gid, listeners, heap, tasks, storage, now, phase, session>>

\* The window's unload listener: Model.persist.
Unload ==
    /\ phase = "running"
    /\ storage' = JSONStringify(ModelSerialize(heap, tasks))
    /\ phase' = "unloaded"
    /\ thrown' = "none"
    /\ calls' = <<>>
    /\ UNCHANGED <<gid, listeners, heap, tasks, rowEls, now, session>>

\* Time passes: Date.now() advances.
ClockAdvance ==
    /\ now + ClockStep \in Times
    /\ now' = now + ClockStep
    /\ UNCHANGED <<gid, listeners, heap, tasks, rowEls, storage, phase, thrown, calls, session>>

\* The page is opened again: a new script context (gid = 0, no objects),
\* the same localStorage.  From "running" the previous page ended without
\* its unload listener having run.
NewSession ==
    /\ phase \in {"running", "unloaded", "failed"}
    /\ session < MaxSessions
    /\ session' = session + 1
    /\ gid' = 0
    /\ listeners' = EmptyListeners
    /\ heap' = EmptyHeap
    /\ tasks' = <<>>
    /\ rowEls' = <<>>
    /\ phase' = "init"
    /\ thrown' = "none"
    /\ calls' = <<>>
    /\ UNCHANGED <<storage, now>>

Next ==
    \/ Startup
    \/ AddTaskClick
    \/ \E i \in 1..MaxTasks : ToggleClick(i)
    \/ \E i \in 1..MaxTasks : DeleteClick(i)
    \/ TimerTick
    \/ Unload
    \/ ClockAdvance
    \/ NewSession

Spec == Init /\ [][Next]_vars

TypeOK ==
    /\ gid \in Nat
    /\ phase \in {"init", "running", "failed", "unloaded"}
    /\ now \in Times
    /\ session \in 1..MaxSessions

----------------------------------------------------------------------------
(* Other entry points.                                                     *)
(*                                                                         *)
(* eventBus is a module-level object: fireEvent('delete_task', task) can   *)
(* be called with any Task, also one the Model does not hold.  run() and   *)
(* pause() are public methods of Task and can be called without toggle().  *)

\* eventBus.fireEvent('delete_task', task) for an arbitrary Task reference.
BusFire(ref) ==
    /\ phase = "running"
    /\ DeleteTask(ref)

NextBus == Next \/ \E ref \in Refs : BusFire(ref)

SpecBus == Init /\ [][NextBus]_vars

\* task.run() called directly.
CallRun(ref) ==
    /\ phase = "running"
    /\ ref \in DOMAIN heap
    /\ Len(heap[ref].intervals) < MaxIntervals
    /\ heap' = [heap EXCEPT ![ref] = TaskRun(@, now)]
    /\ thrown' = "none"
    /\ calls' = <<>>
    /\ UNCHANGED <<gid, listeners, tasks, rowEls, storage, now, phase, session>>

\* task.pause() called directly.
CallPause(ref) ==
    /\ phase = "running"
    /\ ref \in DOMAIN heap
    /\ heap' = [heap EXCEPT ![ref] = TaskPause(@, now)]
    /\ thrown' = IF PauseThrows(heap[ref]) THEN "TypeError" ELSE "none"
    /\ calls' = <<>>
    /\ UNCHANGED <<gid, listeners, tasks, rowEls, storage, now, phase, session>>

\* Tasks of one page driven through run() and pause() only.
NextApi ==
    \/ Startup
    \/ AddTaskClick
    \/ \E ref \in Refs : CallRun(ref)
    \/ \E ref \in Refs : CallPause(ref)
    \/ ClockAdvance

SpecApi == Init /\ [][NextApi]_vars

\* A page whose localStorage item was not written by Model.persist.
StoredInputs == {NoItem, EmptyText, NotJSON, NoTasksJSON}

InitStored ==
    /\ gid = 0
    /\ listeners = EmptyListeners
    /\ heap = EmptyHeap
    /\ tasks = <<>>
    /\ rowEls = <<>>
    /\ storage \in StoredInputs
    /\ now = StartMs
    /\ phase = "init"
    /\ thrown = "none"
    /\ calls = <<>>
    /\ session = 1

SpecStored == InitStored /\ [][Next]_vars

\* The event bus used by other code as well: eventBus.addListener with a
\* listener of its own and eventBus.fireEvent with any type and data, before
\* or after the startup callback has registered the program's listeners.
Registered(lmap) ==
    { p \in EventTypes \X (1..MaxListeners + 2) :
        p[1] \in DOMAIN lmap /\ p[2] <= Len(lmap[p[1]]) }

AddListenerCall(eventType, listener) ==
    /\ phase \in {"init", "running"}
    /\ Cardinality(Registered(listeners)) < MaxListeners
    /\ listeners' = AddListener(listeners, eventType, listener)
    /\ thrown' = "none"
    /\ calls' = <<>>
    /\ UNCHANGED <<gid, heap, tasks, rowEls, storage, now, phase, session>>

FireEventCall(eventType, data) ==
    /\ phase \in {"init", "running"}
    /\ LET st == BusFireEvent(listeners, eventType, data,
                    [tasks |-> tasks, rowEls |-> rowEls, thrown |-> "none", calls |-> <<>>])
       IN  /\ tasks' = st.tasks
           /\ rowEls' = st.rowEls
           /\ thrown' = st.thrown
           /\ calls' = st.calls
           /\ heap' = Reachable(heap, st.tasks, st.rowEls)
    /\ UNCHANGED <<gid, listeners, storage, now, phase, session>>

NextEvents ==
    \/ Startup
    \/ AddTaskClick
    \/ \E e \in EventTypes, l \in OtherListeners : AddListenerCall(e, l)
    \/ \E e \in EventTypes, ref \in Refs : FireEventCall(e, ref)

SpecEvents == Init /\ [][NextEvents]_vars

\* A page that opens on a document persisted by an earlier page: one paused
\* task that was tracked once, for d milliseconds, d drawn from Durations.
Durations ==
    {0, 1, 999, 1000, 1001, 9000, 10000, 59000, 59999, 60000, 61000, 599000,
     600000, 3599000, 3599999, 3600000, 3661000, 35999000, 36000000,
     86399000, 360000000}

TrackedDocument(d) ==
    JSONStringify(
        [tasks |-> << TaskSerialize(
            [id |-> 0, name |-> TaskName(0), status |-> PAUSED,
             intervals |-> << [startMs |-> StartMs, endMs |-> StartMs + d] >>]) >>])

InitFormat ==
    /\ gid = 0
    /\ listeners = EmptyListeners
    /\ heap = EmptyHeap
    /\ tasks = <<>>
    /\ rowEls = <<>>
    /\ \E d \in Durations : storage = TrackedDocument(d) /\ now = StartMs + d
    /\ phase = "init"
    /\ thrown = "none"
    /\ calls = <<>>
    /\ session = 1

NextFormat ==
    \/ Startup
    \/ \E i \in 1..MaxTasks : ToggleClick(i)
    \/ \E i \in 1..MaxTasks : DeleteClick(i)
    \/ TimerTick

SpecFormat == InitFormat /\ [][NextFormat]_vars

----------------------------------------------------------------------------
(* Properties *)

IsDocument(item) == item.kind = "json" /\ "tasks" \in DOMAIN item.value

Without(arr, x) == SelectSeq(arr, LAMBDA y : y # x)

IsOpen(interval) == interval.endMs = Undefined

\* C1: after Model.load() has restored the persisted tasks, the id the next
\* addTask() returns (the value of gid, Task's constructor takes id = gid++)
\* is strictly greater than the serialized id K of every restored task.
C1_NextIdPastRestored ==
    (phase = "running" /\ IsDocument(storage)) =>
        \A k \in 1..Len(storage.value.tasks) : gid > storage.value.tasks[k].id

\* C2: no two tasks of Model.tasks have the same id, in every state reached
\* by load, addTask, delete_task, persist and reload.
C2_UniqueIds ==
    \A i, j \in 1..Len(tasks) : i # j => heap[tasks[i]].id # heap[tasks[j]].id

\* C3: deserializing t.serialize() into a new Task yields a task with the
\* same id, name, status and intervals as t, and serializing that task
\* again gives t.serialize().
C3_RoundTrip ==
    \A r \in DOMAIN heap :
        LET t == heap[r]
            d == TaskDeserialize(NewTask(gid), TaskSerialize(t)).task
        IN  /\ d.id = t.id
            /\ d.name = t.name
            /\ d.status = t.status
            /\ d.intervals = t.intervals
            /\ TaskSerialize(d) = TaskSerialize(t)

\* C4: each task has at most one interval without endMs, that interval is
\* the last of the task's list, and it exists only while the task's status
\* is RUNNING.
C4_OneTrailingOpen ==
    \A r \in DOMAIN heap :
        LET iv == heap[r].intervals
        IN  /\ Cardinality({k \in 1..Len(iv) : IsOpen(iv[k])}) <= 1
            /\ \A k \in 1..Len(iv) :
                    IsOpen(iv[k]) => (k = Len(iv) /\ heap[r].status = RUNNING)

\* A running task restored in a second session with a closed and an open interval.
C4_Witness ==
    /\ session = 2
    /\ \E r \in DOMAIN heap :
        /\ heap[r].status = RUNNING
        /\ Len(heap[r].intervals) = 2
        /\ ~IsOpen(heap[r].intervals[1])
        /\ IsOpen(heap[r].intervals[2])

\* C5: under toggle() and a non-decreasing clock an interval's endMs is
\* absent while it is the running interval, is set once, by the pause that
\* closes it, to a value >= startMs, and from then on neither startMs nor
\* endMs of the interval changes.
C5_IntervalLifecycle ==
    [][\A r \in (DOMAIN heap) \cap (DOMAIN heap') :
        LET old == heap[r].intervals
            new == heap'[r].intervals
        IN  /\ Len(new) >= Len(old)
            /\ \A k \in 1..Len(old) :
                /\ new[k].startMs = old[k].startMs
                /\ ~IsOpen(old[k]) => new[k].endMs = old[k].endMs
                /\ (IsOpen(old[k]) /\ ~IsOpen(new[k])) =>
                        /\ k = Len(old)
                        /\ heap[r].status = RUNNING
                        /\ heap'[r].status = PAUSED
                        /\ new[k].endMs = now
            /\ \A k \in 1..Len(new) :
                /\ ~IsOpen(new[k]) => new[k].endMs >= new[k].startMs
                /\ k > Len(old) => IsOpen(new[k])
            /\ (heap'[r].status = RUNNING /\ Len(new) > 0) => IsOpen(new[Len(new)])
      ]_vars

\* A task with two closed intervals that were closed at different times.
C5_Witness ==
    \E r \in DOMAIN heap :
        /\ heap[r].status = PAUSED
        /\ Len(heap[r].intervals) = 2
        /\ heap[r].intervals[1].endMs < heap[r].intervals[2].endMs
        /\ heap[r].intervals[1].endMs >= heap[r].intervals[1].startMs

RECURSIVE ClosedSum(_, _)
ClosedSum(intervals, k) ==
    IF k > Len(intervals) THEN 0
    ELSE (IF IsOpen(intervals[k]) THEN 0
          ELSE intervals[k].endMs - intervals[k].startMs)
         + ClosedSum(intervals, k + 1)

RECURSIVE OpenSum(_, _, _)
OpenSum(intervals, k, t) ==
    IF k > Len(intervals) THEN 0
    ELSE (IF IsOpen(intervals[k]) THEN t - intervals[k].startMs ELSE 0)
         + OpenSum(intervals, k + 1, t)

\* C6: for any sequence of run() / pause() calls on a task, elapsed() at
\* clock time `now` is the sum of endMs - startMs over the closed intervals,
\* plus now - startMs of the open interval if the task is running.
C6_ElapsedSum ==
    \A r \in DOMAIN heap :
        TaskElapsed(heap[r], now) =
            ClosedSum(heap[r].intervals, 1)
            + (IF heap[r].status = RUNNING THEN OpenSum(heap[r].intervals, 1, now) ELSE 0)

\* The first toggle of a paused task: run().
RunStep(r) == heap[r].status = PAUSED /\ heap'[r].status = RUNNING

\* The second toggle: pause().
PauseStep(r) == heap[r].status = RUNNING /\ heap'[r].status = PAUSED

\* What two toggles of a paused task do to its intervals, up to the relation
\* between the end and the start of the interval they add.
TwoToggles(r, EndOk(_)) ==
    LET old == heap[r].intervals
        new == heap'[r].intervals
    IN  /\ RunStep(r) => new = Append(old, [startMs |-> now, endMs |-> Undefined])
        /\ (heap[r].status = RUNNING /\ heap'[r].status = RUNNING) => new = old
        /\ PauseStep(r) =>
                /\ Len(new) = Len(old)
                /\ Len(new) > 0
                /\ SubSeq(new, 1, Len(new) - 1) = SubSeq(old, 1, Len(old) - 1)
                /\ IsOpen(old[Len(old)])
                /\ new[Len(new)].startMs = old[Len(old)].startMs
                /\ ~IsOpen(new[Len(new)])
                /\ EndOk(new[Len(new)])

\* C7 as stated: toggling a PAUSED task twice leaves it PAUSED and adds
\* exactly one interval, which is closed and has endMs > startMs.
C7_Original ==
    [][\A r \in (DOMAIN heap) \cap (DOMAIN heap') :
            TwoToggles(r, LAMBDA i : i.endMs > i.startMs)]_vars

\* C7 as amended: toggling a PAUSED task twice leaves it PAUSED and adds
\* exactly one interval, which is closed and has endMs >= startMs (both
\* toggles can read the same Date.now()).
C7_TwoToggles ==
    [][\A r \in (DOMAIN heap) \cap (DOMAIN heap') :
            TwoToggles(r, LAMBDA i : i.endMs >= i.startMs)]_vars

\* A task toggled twice within one clock value: one interval, endMs = startMs.
C7_Witness ==
    \E r \in DOMAIN heap :
        /\ heap[r].status = PAUSED
        /\ Len(heap[r].intervals) = 1
        /\ heap[r].intervals[1].endMs = heap[r].intervals[1].startMs

C9_DeleteAbsent ==
    [][\A r \in Refs :
        (phase = "running" /\ IndexOf(tasks, r) = -1 /\ DeleteTask(r)) =>
            tasks' = tasks
      ]_vars

\* The stored item is missing, not parseable, or has no tasks list.
MissingOrMalformed(item) == ~IsDocument(item)

\* C10: when the stored item is missing or malformed, constructing the Model
\* completes without a failure and leaves Model.tasks empty.
C10_LoadTolerant ==
    [][(phase = "init" /\ phase' # "init" /\ MissingOrMalformed(storage)) =>
            (phase' = "running" /\ thrown' = "none" /\ tasks' = <<>>)]_vars

\* The task has no open interval to stop: no interval at all, or a closed
\* trailing interval.
NoOpenInterval(task) ==
    Len(task.intervals) = 0 \/ ~IsOpen(task.intervals[Len(task.intervals)])

\* C11: pause() on a task that has no open interval surfaces an error and
\* leaves the task's intervals, status and elapsed() unchanged; it does not
\* overwrite the endMs of a closed interval.
C11_PauseGuarded ==
    [][\A r \in DOMAIN heap :
        (CallPause(r) /\ NoOpenInterval(heap[r])) =>
            /\ thrown' # "none"
            /\ heap'[r].intervals = heap[r].intervals
            /\ heap'[r].status = heap[r].status
            /\ TaskElapsed(heap'[r], now') = TaskElapsed(heap[r], now)
      ]_vars

\* The invocations fireEvent(eventType, data) is to make: each listener of
\* the type once, in registration order, with data.
ExpectedCalls(lmap, eventType, data) ==
    IF eventType \in DOMAIN lmap
    THEN [k \in 1..Len(lmap[eventType]) |-> [listener |-> lmap[eventType][k], data |-> data]]
    ELSE <<>>

\* C12: fireEvent(eventType, data) invokes, before it returns, every listener
\* registered for eventType exactly once, in registration order, each with
\* data; it invokes no listener of another type, and nothing when the type
\* has no listeners.
C12_FireInvokesAll ==
    [][\A e \in EventTypes, ref \in Refs :
        FireEventCall(e, ref) => calls' = ExpectedCalls(listeners, e, ref)]_vars

\* C13: the stored document changes only when the unload listener runs
\* Model.persist(): every other step (addTask, toggle, delete_task, timer
\* tick, a new page load) leaves it as it was.
C13_PersistOnlyOnUnload ==
    [][storage' # storage =>
        /\ phase = "running"
        /\ phase' = "unloaded"
        /\ storage' = JSONStringify(ModelSerialize(heap, tasks))
      ]_vars

\* A second page load finds no stored item (the first page ended without
\* unload) and has tracked time without the storage changing.
C13_Witness ==
    /\ session = 2
    /\ phase = "running"
    /\ storage = NoItem
    /\ \E r \in DOMAIN heap : Len(heap[r].intervals) > 0

AllPaused == \A k \in 1..Len(tasks) : heap[tasks[k]].status = PAUSED

\* A task restored by Model.load: its id is no longer the one in its name.
Restored(task) == task.name # TaskName(task.id)

\* C14: if every task is PAUSED when persist() runs, a Model loaded from the
\* persisted document at any later time holds as many tasks, in the same
\* order, and each restored task's elapsed() is the elapsed() its task had
\* before persist.
C14_PausedElapsedSurvives ==
    (phase = "unloaded" /\ AllPaused) =>
        LET m == ModelLoad(storage)
        IN  /\ m.thrown = "none"
            /\ Len(m.tasks) = Len(tasks)
            /\ \A k \in 1..Len(tasks) :
                /\ m.heap[m.tasks[k]].name = heap[tasks[k]].name
                /\ \A t \in Times :
                    t >= now => TaskElapsed(m.heap[m.tasks[k]], t)
                                    = TaskElapsed(heap[tasks[k]], now)

\* A second page load has restored two paused tasks, one with tracked time.
C14_Witness ==
    /\ session = 2
    /\ phase = "running"
    /\ IsDocument(storage)
    /\ Len(storage.value.tasks) = 2
    /\ Len(tasks) = 2
    /\ \A k \in 1..2 : Restored(heap[tasks[k]]) /\ heap[tasks[k]].status = PAUSED
    /\ \E k \in 1..2 : TaskElapsed(heap[tasks[k]], now) = ClockStep

Digit(n) == <<"0", "1", "2", "3", "4", "5", "6", "7", "8", "9">>[n + 1]

RECURSIVE Decimal(_)
Decimal(n) == IF n < 10 THEN Digit(n) ELSE Decimal(n \div 10) \o Digit(n % 10)

TwoDigits(n) == Digit(n \div 10) \o Digit(n % 10)

\* H:MM:SS of a duration: with s = floor(durationMs / 1000), H = floor(s / 3600)
\* unpadded, MM = floor(s / 60) mod 60 and SS = s mod 60 on two digits.
HMMSS(durationMs) ==
    LET s == durationMs \div 1000
    IN  Decimal(s \div 3600) \o ":" \o TwoDigits((s \div 60) % 60)
            \o ":" \o TwoDigits(s % 60)

\* C15: for every non-negative durationMs, formatDuration returns H:MM:SS as
\* HMMSS defines it: here for the elapsed() of every task and for the text
\* of its row, and for 0, 61000 and 3661000.
C15_FormatDuration ==
    /\ formatDuration(0) = "0:00:00"
    /\ formatDuration(61000) = "0:01:01"
    /\ formatDuration(3661000) = "1:01:01"
    /\ \A k \in 1..Len(rowEls) :
        LET e == TaskElapsed(heap[rowEls[k].task], now)
        IN  /\ e >= 0
            /\ formatDuration(e) = HMMSS(e)
            /\ rowEls[k].elapsedText = HMMSS(e)

\* The row of a task tracked for 3661000 ms displays 1:01:01.
C15_Witness ==
    \E k \in 1..Len(rowEls) :
        /\ TaskElapsed(heap[rowEls[k].task], now) = 3661000
        /\ rowEls[k].elapsedText = "1:01:01"

\* The listener throws when called with this task while the table has these rows.
ListenerThrows(listener, ref, rows) ==
    \/ listener = "Thrower"
    \/ listener = "TaskTableEl" /\ TableOnDeleteThrows(rows, ref)

\* Position of the first listener of ls that throws, 0 if none does.
FirstThrow(ls, ref, rows) ==
    IF \E k \in 1..Len(ls) : ListenerThrows(ls[k], ref, rows)
    THEN CHOOSE k \in 1..Len(ls) :
            /\ ListenerThrows(ls[k], ref, rows)
            /\ \A j \in 1..(k - 1) : ~ListenerThrows(ls[j], ref, rows)
    ELSE 0

Before(ls, k, listener) == \E j \in 1..(k - 1) : ls[j] = listener

\* C16: if a listener throws during fireEvent, the listeners registered
\* after it for that event are not invoked, the exception reaches the caller
\* of fireEvent, and what the listeners before it did stays done (for
\* delete_task, the Model listener has removed from Model.tasks when the
\* table listener throws).
C16_ThrowAborts ==
    [][\A e \in EventTypes, ref \in Refs :
        (FireEventCall(e, ref) /\ e \in DOMAIN listeners) =>
            LET ls == listeners[e]
                k  == FirstThrow(ls, ref, rowEls)
            IN  k > 0 =>
                    /\ calls' = SubSeq(ExpectedCalls(listeners, e, ref), 1, k)
                    /\ thrown' # "none"
                    /\ tasks' = IF Before(ls, k, "Model")
                                THEN Splice(tasks, IndexOf(tasks, ref), 1)
                                ELSE tasks
                    /\ rowEls' = IF Before(ls, k, "TaskTableEl")
                                 THEN SelectSeq(rowEls, LAMBDA row : row.task # ref)
                                 ELSE rowEls
      ]_vars

\* delete_task was fired for a task without a row, with a third listener
\* registered after the table's: the Model listener has removed a task, the
\* table listener has thrown, the third listener was not invoked.
C16_Witness ==
    /\ phase = "running"
    /\ thrown = "TypeError"
    /\ "delete_task" \in DOMAIN listeners
    /\ Len(listeners["delete_task"]) = 3
    /\ listeners["delete_task"][2] = "TaskTableEl"
    /\ Len(calls) = 2
    /\ Len(tasks) < Len(rowEls)

\* C17: in every state reached by toggle clicks and timer ticks, the
\* duration text in the row of a PAUSED task is formatDuration(task.elapsed()).
C17_PausedRowShowsElapsed ==
    phase = "running" =>
        \A k \in 1..Len(rowEls) :
            heap[rowEls[k].task].status = PAUSED =>
                rowEls[k].elapsedText
                    = formatDuration(TaskElapsed(heap[rowEls[k].task], now))

\* C18: after the View is constructed and after any add-task and delete
\* clicks on rows, the tasks the rows reference are Model.tasks, element by
\* element and in order.
C18_RowsMirrorTasks ==
    phase \in {"running", "unloaded"} => RowTasks = tasks

\* The first task was deleted and another task added after it.
C18_Witness ==
    /\ phase = "running"
    /\ tasks = <<2, 1>>
    /\ Len(rowEls) = 2
    /\ rowEls[1].task = 2
    /\ rowEls[2].task = 1

\* C19: a task that is RUNNING when persist() runs is restored by a later
\* load as RUNNING with its trailing interval open at the original startMs:
\* its elapsed() at load time t counts up to t, and the next toggle() closes
\* that interval and adds none.
C19_RunningSurvives ==
    phase = "unloaded" =>
        LET m == ModelLoad(storage)
        IN  \A k \in 1..Len(tasks) :
                heap[tasks[k]].status = RUNNING =>
                    LET o == heap[tasks[k]]
                        n == m.heap[m.tasks[k]]
                        len == Len(n.intervals)
                    IN  /\ m.thrown = "none"
                        /\ n.name = o.name
                        /\ n.status = RUNNING
                        /\ len = Len(o.intervals)
                        /\ len > 0
                        /\ IsOpen(n.intervals[len])
                        /\ n.intervals[len].startMs = o.intervals[len].startMs
                        /\ \A t \in Times :
                            t >= now =>
                                /\ TaskElapsed(n, t)
                                    = ClosedSum(o.intervals, 1) + (t - o.intervals[len].startMs)
                                /\ LET p == TaskToggle(n, t)
                                   IN  /\ p.status = PAUSED
                                       /\ Len(p.intervals) = len
                                       /\ p.intervals[len].startMs = o.intervals[len].startMs
                                       /\ p.intervals[len].endMs = t

\* In a second page load, a task stored as RUNNING was restored and then
\* paused: its one interval runs from the first page's start to the pause.
C19_Witness ==
    /\ session = 2
    /\ phase = "running"
    /\ IsDocument(storage)
    /\ \E r \in DOMAIN heap :
        /\ Restored(heap[r])
        /\ heap[r].status = PAUSED
        /\ heap[r].intervals = << [startMs |-> StartMs, endMs |-> StartMs + ClockStep] >>
        /\ \E k \in 1..Len(storage.value.tasks) :
            /\ storage.value.tasks[k].name = heap[r].name
            /\ storage.value.tasks[k].status = RUNNING
            /\ storage.value.tasks[k].intervals = << [startMs |-> StartMs] >>

====
